---- MODULE Spec2Model ----
(***************************************************************************)
(* Model of system-stats-backend (main.go): getStats, the snapshot         *)
(* assembler; sseHandler, the per-connection stream session; and           *)
(* Server.Start, the server lifecycle.                                     *)
(***************************************************************************)
EXTENDS Integers, Sequences, FiniteSets, TLC

(***************************************************************************)
(* Bounds of the model.                                                    *)
(***************************************************************************)
\* longest process list process.Processes() returns in the model
MaxProcs == 3

\* last second of the clock under Spec
MaxTime == 5

(***************************************************************************)
(* Constants of the program, in seconds.                                   *)
(***************************************************************************)
\* time.NewTicker(2 * time.Second)
TickInterval == 2

\* http.Server.WriteTimeout: 15 * time.Second
WriteTimeout == 15

\* context.WithTimeout(context.Background(), 5*time.Second)
ShutdownGrace == 5

\* errChan made without a buffer
ErrChanUnbuffered == 1 - 1

\* errChan := make(chan error, 1)
ErrChanCap == 1

(***************************************************************************)
(* 64-bit arithmetic.  A uint64 is four 16-bit limbs, least significant    *)
(* first; an int64 and a mathematical integer are a sign and a magnitude   *)
(* of five limbs.                                                          *)
(***************************************************************************)
Base == 2^16

Half == 2^15

Limbs == 1..4

\* carry into limb i of a + b
RECURSIVE Carry(_, _, _)
Carry(a, b, i) ==
    IF i = 1 THEN 0 ELSE (a[i-1] + b[i-1] + Carry(a, b, i-1)) \div Base

\* uint64 + uint64 in Go: the sum modulo 2^64
AddU64(a, b) == [i \in Limbs |-> (a[i] + b[i] + Carry(a, b, i)) % Base]

\* the mathematical sum of two uint64, five limbs
MathSum(a, b) ==
    [i \in 1..5 |-> IF i <= 4 THEN (a[i] + b[i] + Carry(a, b, i)) % Base
                    ELSE Carry(a, b, 5)]

\* 2^64 - u for u # 0 : complement the limbs and add one
RECURSIVE IncCarry(_, _)
IncCarry(c, i) ==
    IF i = 1 THEN 1 ELSE (c[i-1] + IncCarry(c, i-1)) \div Base

Negate(u) ==
    LET c == [i \in Limbs |-> Base - 1 - u[i]]
    IN  [i \in Limbs |-> (c[i] + IncCarry(c, i)) % Base]

Widen(u) == [i \in 1..5 |-> IF i <= 4 THEN u[i] ELSE 0]

\* int64(u) in Go: the same 64 bits read as two's complement
ToInt64(u) ==
    IF u[4] >= Half THEN [neg |-> TRUE,  mag |-> Widen(Negate(u))]
                    ELSE [neg |-> FALSE, mag |-> Widen(u)]

\* a non-negative mathematical integer of five limbs
MathInt(m) == [neg |-> FALSE, mag |-> m]

\* counter values the network source returns in the model:
\* 100, 200, 2^63 - 1, 2^64 - 1
CounterValues ==
    { <<100, 0, 0, 0>>, <<200, 0, 0, 0>>,
      <<Base - 1, Base - 1, Base - 1, Half - 1>>,
      <<Base - 1, Base - 1, Base - 1, Base - 1>> }

(***************************************************************************)
(* The metrics source (gopsutil) as getStats sees it: the outcome of each  *)
(* read of one call.                                                       *)
(***************************************************************************)
MB == 1024 * 1024

\* one process handle: the outcome of Name(), of CPUPercent() and of
\* MemoryInfo(), each "err" or the value read; rss is the RSS in bytes that
\* MemoryInfo() reports when it succeeds
ProcHandles(pid) ==
    [pid : {pid}, name : {"err", "x"}, cpu : {"err", "1.0"},
     mem : {"err", "info"}, rss : {2 * pid * MB}]

RECURSIVE ProcLists(_)
ProcLists(n) ==
    IF n = 0 THEN { <<>> }
    ELSE LET shorter == ProcLists(n - 1)
         IN  shorter \cup
             { Append(l, h) : l \in { x \in shorter : Len(x) = n - 1 },
                              h \in ProcHandles(n) }

\* every combination of outcomes of the reads of one getStats call; the
\* percentages are in tenths of a percent
Sources(n) ==
    [cpu : {"err", "empty", "ok"}, mem : {"err", "ok"}, disk : {"err", "ok"},
     net : {"err", "empty", "ok"}, plist : {"err", "ok"},
     cpuVal : {123}, memVal : {550}, diskVal : {800},
     sent : CounterValues, recv : CounterValues, procs : ProcLists(n)]

(***************************************************************************)
(* getStats (main.go:127-197).  A result is the pair Go returns: stats is  *)
(* <<>> for a nil pointer and <<s>> for a pointer to s; err is "nil" or    *)
(* the message of the error.                                               *)
(***************************************************************************)
Fail(msg) == [stats |-> <<>>, err |-> msg]

\* ProcessInfo{...} of main.go:181-186; MemoryUsage is RSS / (1024 * 1024),
\* kept as the exact quotient
ProcessInfo(proc) ==
    [PID |-> proc.pid, Name |-> proc.name, CPUPercent |-> proc.cpu,
     MemoryUsage |-> [num |-> proc.rss, den |-> MB]]

\* the loop without the check of CPUPercent()'s error
RECURSIVE CollectProcessesNoCpuCheck(_)
CollectProcessesNoCpuCheck(procs) ==
    IF procs = <<>> THEN <<>>
    ELSE LET proc == Head(procs)
             rest == CollectProcessesNoCpuCheck(Tail(procs))
         IN  IF proc.name = "err" THEN rest
             ELSE IF proc.mem = "err" THEN rest
             ELSE <<ProcessInfo(proc)>> \o rest

\* the loop over procs: a process is appended only when Name(), CPUPercent()
\* and MemoryInfo() all succeed; the first failure skips it (continue)
RECURSIVE CollectProcesses(_)
CollectProcesses(procs) ==
    IF procs = <<>> THEN <<>>
    ELSE LET proc == Head(procs)
             rest == CollectProcesses(Tail(procs))
         IN  IF proc.name = "err" THEN rest
             ELSE IF proc.cpu = "err" THEN rest
             ELSE IF proc.mem = "err" THEN rest
             ELSE <<ProcessInfo(proc)>> \o rest

\* NetTraffic: int64(netStats[0].BytesRecv + netStats[0].BytesSent)
NetTraffic(src) == ToInt64(AddU64(src.recv, src.sent))

\* the snapshot getStats builds once every read has succeeded
Snapshot(src) ==
    [stats |-> <<[CPUUsage   |-> src.cpuVal,
                  MemUsage   |-> src.memVal,
                  DiskUsage  |-> src.diskVal,
                  NetTraffic |-> NetTraffic(src),
                  Processes  |-> CollectProcesses(src.procs)]>>,
     err |-> "nil"]

\* getStats without the check of disk.Usage's error
getStatsNoDiskCheck(src) ==
    IF src.cpu = "err" THEN Fail("error getting CPU stats")
    ELSE IF src.cpu = "empty" THEN Fail("no CPU statistics available")
    ELSE IF src.mem = "err" THEN Fail("error getting memory stats")
    ELSE IF src.net = "err" THEN Fail("error getting network stats")
    ELSE IF src.net = "empty" THEN Fail("no network statistics available")
    ELSE IF src.plist = "err" THEN Fail("error getting process list")
    ELSE Snapshot(src)

\* getStats returning the error of a process's Name() instead of skipping it
getStatsNameErrReturned(src) ==
    IF src.cpu = "err" THEN Fail("error getting CPU stats")
    ELSE IF src.cpu = "empty" THEN Fail("no CPU statistics available")
    ELSE IF src.mem = "err" THEN Fail("error getting memory stats")
    ELSE IF src.disk = "err" THEN Fail("error getting disk stats")
    ELSE IF src.net = "err" THEN Fail("error getting network stats")
    ELSE IF src.net = "empty" THEN Fail("no network statistics available")
    ELSE IF src.plist = "err" THEN Fail("error getting process list")
    ELSE IF \E i \in 1..Len(src.procs) : src.procs[i].name = "err"
         THEN Fail("error getting process name")
    ELSE Snapshot(src)

\* getStats checking disk.Usage's error before mem.VirtualMemory's
getStatsDiskBeforeMem(src) ==
    IF src.cpu = "err" THEN Fail("error getting CPU stats")
    ELSE IF src.cpu = "empty" THEN Fail("no CPU statistics available")
    ELSE IF src.disk = "err" THEN Fail("error getting disk stats")
    ELSE IF src.mem = "err" THEN Fail("error getting memory stats")
    ELSE IF src.net = "err" THEN Fail("error getting network stats")
    ELSE IF src.net = "empty" THEN Fail("no network statistics available")
    ELSE IF src.plist = "err" THEN Fail("error getting process list")
    ELSE Snapshot(src)

getStats(src) ==
    IF src.cpu = "err" THEN Fail("error getting CPU stats")
    ELSE IF src.cpu = "empty" THEN Fail("no CPU statistics available")
    ELSE IF src.mem = "err" THEN Fail("error getting memory stats")
    ELSE IF src.disk = "err" THEN Fail("error getting disk stats")
    ELSE IF src.net = "err" THEN Fail("error getting network stats")
    ELSE IF src.net = "empty" THEN Fail("no network statistics available")
    ELSE IF src.plist = "err" THEN Fail("error getting process list")
    ELSE Snapshot(src)

\* the sources one getStats call queries, in the order of the calls: each
\* return of main.go:131-161 ends the call before the next source is read
Queries(src) ==
    IF src.cpu \in {"err", "empty"} THEN <<"cpu">>
    ELSE IF src.mem = "err" THEN <<"cpu", "mem">>
    ELSE IF src.disk = "err" THEN <<"cpu", "mem", "disk">>
    ELSE IF src.net \in {"err", "empty"} THEN <<"cpu", "mem", "disk", "net">>
    ELSE <<"cpu", "mem", "disk", "net", "plist">>

(***************************************************************************)
(* State.                                                                  *)
(***************************************************************************)
\* the connections to /api/events the model follows; sessions share no
\* state, so two are enough to show one next to another
Sessions == {1, 2}

VARIABLES
    probe,      \* <<>>, or <<[src, res, calls]>>: one getStats call, its
                \* result and the sources it queried, in order
    reply,      \* <<>>, or <<[method, src, connUp, ...]>>: one request to
                \* /api/stats and what statsHandler did with it
    now,        \* the clock, in seconds
    horizon,    \* the second at which the model stops the clock
    slowIO,     \* getStats and the writes may take a second or more
    clients,    \* the sessions whose client connects
    server,     \* Start: "starting" (before its select), "serving" (parked in
                \* the select), "shutdown" (in server.Shutdown), "exited"
    stopCh,     \* a signal waits in the channel stop
    errCh,      \* the values waiting in errChan
    lsn,        \* the goroutine of ListenAndServe: "serving", "failed" (it
                \* has the listener's error to send), "closed" (the listener
                \* was closed and it has ErrServerClosed to send), "done"
    events,     \* the listener failure and the signal, in the order they came
    stopAt,     \* the second the shutdown signal was received
    startErr,   \* what Start returned: "none" while running, "nil" or a message
    pc,         \* sseHandler's position, per session
    ticker,     \* the session's time.Ticker: [active, next, pending]
    deadline,   \* the connection's write deadline (set from WriteTimeout)
    ctxDone,    \* r.Context().Done() is closed
    clientGone, \* the client has disconnected
    sample,     \* err of the getStats call of the current tick ("nil": none)
    fired,      \* ticks the ticker has fired
    sampled,    \* getStats calls made
    nStats,     \* "event: stats" events written
    nErrors,    \* "event: error" events written
    delivered   \* events whose write and flush succeeded

vars == <<probe, reply, now, horizon, slowIO, clients, server, stopAt, startErr,
          stopCh, errCh, lsn, events, pc, ticker,
          deadline, ctxDone, clientGone, sample, fired, sampled, nStats,
          nErrors, delivered>>

sessionVars == <<pc, ticker, deadline, ctxDone, clientGone, sample, fired,
                 sampled, nStats, nErrors, delivered>>

serverVars == <<server, stopAt, startErr, stopCh, errCh, lsn, events>>

\* the handler of session s is running
Running(s) == pc[s] \in {"select", "sampling", "writing"}

\* the goroutine has a result to send on errChan
Sending == lsn \in {"failed", "closed"}

InitWith(h, slow, cs) ==
    /\ probe = <<>>
    /\ reply = <<>>
    /\ now = 0
    /\ horizon = h
    /\ slowIO = slow
    /\ clients = cs
    /\ server = "starting"
    /\ stopAt = 0
    /\ startErr = "none"
    /\ stopCh = FALSE
    /\ errCh = <<>>
    /\ lsn = "serving"
    /\ events = <<>>
    /\ pc = [s \in Sessions |-> "idle"]
    /\ ticker = [s \in Sessions |-> [active |-> FALSE, next |-> 0, pending |-> FALSE]]
    /\ deadline = [s \in Sessions |-> 0]
    /\ ctxDone = [s \in Sessions |-> FALSE]
    /\ clientGone = [s \in Sessions |-> FALSE]
    /\ sample = [s \in Sessions |-> "nil"]
    /\ fired = [s \in Sessions |-> 0]
    /\ sampled = [s \in Sessions |-> 0]
    /\ nStats = [s \in Sessions |-> 0]
    /\ nErrors = [s \in Sessions |-> 0]
    /\ delivered = [s \in Sessions |-> 0]

Init == InitWith(MaxTime, TRUE, Sessions)

(***************************************************************************)
(* One getStats call on any outcome of the sources.                        *)
(***************************************************************************)
CallGetStats ==
    /\ probe = <<>>
    /\ \E src \in Sources(MaxProcs) :
           probe' = <<[src |-> src, res |-> getStats(src), calls |-> Queries(src)]>>
    /\ UNCHANGED <<reply, now, horizon, slowIO, clients>>
    /\ UNCHANGED serverVars
    /\ UNCHANGED sessionVars

(***************************************************************************)
(* statsHandler (main.go:207-223).  What the handler did with one request: *)
(* the status it set, the Content-Type, the body it wrote, the number of   *)
(* getStats calls it made and whether it logged an encoding error.         *)
(***************************************************************************)
\* the request methods the model sends
Methods == {"GET", "POST", "HEAD"}

\* http.Error(w, msg, code): a plain-text body of msg and a newline
HttpError(msg, code, calls) ==
    [status |-> code, contentType |-> "text/plain; charset=utf-8",
     body |-> <<msg, "\n">>, calls |-> calls, logged |-> FALSE]

\* json.NewEncoder(w).Encode(stats): the fields under their json tags
\* (main.go:30-34, 40-43)
EncodeJSON(stats) ==
    [cpuUsage   |-> stats.CPUUsage,
     memUsage   |-> stats.MemUsage,
     diskUsage  |-> stats.DiskUsage,
     netTraffic |-> stats.NetTraffic,
     processes  |-> [i \in 1..Len(stats.Processes) |->
                       [pid         |-> stats.Processes[i].PID,
                        name        |-> stats.Processes[i].Name,
                        cpuPercent  |-> stats.Processes[i].CPUPercent,
                        memoryUsage |-> stats.Processes[i].MemoryUsage]]]

\* statsHandler without the check of r.Method
statsHandlerNoMethodCheck(method, src, connUp) ==
    LET res == getStats(src)
    IN  IF res.err # "nil" THEN HttpError(res.err, 500, 1)
        ELSE [status |-> 200, contentType |-> "application/json",
              body |-> <<EncodeJSON(res.stats[1])>>, calls |-> 1,
              logged |-> ~connUp]

\* connUp: the connection still takes the body; when it does not, Encode
\* returns the write error and the handler logs it
statsHandler(method, src, connUp) ==
    IF method # "GET" THEN HttpError("Method not allowed", 405, 0)
    ELSE LET res == getStats(src)
         IN  IF res.err # "nil" THEN HttpError(res.err, 500, 1)
             ELSE [status |-> 200, contentType |-> "application/json",
                   body |-> <<EncodeJSON(res.stats[1])>>, calls |-> 1,
                   logged |-> ~connUp]

\* the outcomes of the sources a request to /api/stats may meet
EndpointSources == Sources(1)

\* one request to /api/stats
ServeStats ==
    /\ reply = <<>>
    /\ \E method \in Methods, src \in EndpointSources, connUp \in BOOLEAN :
           reply' = <<[method |-> method, src |-> src, connUp |-> connUp,
                       resp |-> statsHandler(method, src, connUp)]>>
    /\ UNCHANGED <<probe, now, horizon, slowIO, clients>>
    /\ UNCHANGED serverVars
    /\ UNCHANGED sessionVars

(***************************************************************************)
(* sseHandler (main.go:233-264).                                           *)
(***************************************************************************)
\* the outcomes of the sources a stream tick may meet
StreamSources ==
    { src \in Sources(0) : /\ src.sent = <<100, 0, 0, 0>>
                           /\ src.recv = <<200, 0, 0, 0>>
                           /\ src.mem = "ok" /\ src.net = "ok"
                           /\ src.cpu # "empty"
                           /\ (src.cpu = "err" => src.disk = "ok" /\ src.plist = "ok")
                           /\ (src.disk = "err" => src.plist = "ok") }

\* the listener accepts connections: ListenAndServe is running and
\* server.Shutdown has not closed the listener
Accepting == lsn = "serving" /\ server \in {"starting", "serving"}

\* a client connects to /api/events: the connection gets its write deadline
\* from WriteTimeout, the handler sets the headers and creates the ticker
Open(s) ==
    /\ s \in clients
    /\ Accepting
    /\ pc[s] = "idle"
    /\ pc' = [pc EXCEPT ![s] = "select"]
    /\ ticker' = [ticker EXCEPT ![s] =
                     [active |-> TRUE, next |-> now + TickInterval, pending |-> FALSE]]
    /\ deadline' = [deadline EXCEPT ![s] = now + WriteTimeout]
    /\ UNCHANGED <<probe, reply, now, horizon, slowIO, clients, ctxDone, clientGone, sample,
                   fired, sampled, nStats, nErrors, delivered>>
    /\ UNCHANGED serverVars

\* a return without the deferred ticker.Stop()
SelectDoneNoStop(s) ==
    /\ server # "exited"
    /\ pc[s] = "select"
    /\ ctxDone[s]
    /\ pc' = [pc EXCEPT ![s] = "closed"]
    /\ UNCHANGED <<probe, reply, now, horizon, slowIO, clients, ticker, deadline, ctxDone,
                   clientGone, sample, fired, sampled, nStats, nErrors, delivered>>
    /\ UNCHANGED serverVars

\* select, case <-r.Context().Done(): return, and the deferred ticker.Stop()
SelectDone(s) ==
    /\ server # "exited"
    /\ pc[s] = "select"
    /\ ctxDone[s]
    /\ pc' = [pc EXCEPT ![s] = "closed"]
    /\ ticker' = [ticker EXCEPT ![s].active = FALSE]
    /\ UNCHANGED <<probe, reply, now, horizon, slowIO, clients, deadline, ctxDone, clientGone,
                   sample, fired, sampled, nStats, nErrors, delivered>>
    /\ UNCHANGED serverVars

\* a channel that always has a tick
TickAlwaysReady(s) == TRUE

\* select, case <-ticker.C: a pending tick is received.  Go's select takes
\* any one of the ready cases, so this is enabled whatever ctxDone is
TickReady(s) == ticker[s].pending

SelectTick(s) ==
    /\ server # "exited"
    /\ pc[s] = "select"
    /\ TickReady(s)
    /\ pc' = [pc EXCEPT ![s] = "sampling"]
    /\ ticker' = [ticker EXCEPT ![s].pending = FALSE]
    /\ UNCHANGED <<probe, reply, now, horizon, slowIO, clients, deadline, ctxDone, clientGone,
                   sample, fired, sampled, nStats, nErrors, delivered>>
    /\ UNCHANGED serverVars

\* stats, err := getStats()
Sample(s) ==
    /\ server # "exited"
    /\ pc[s] = "sampling"
    /\ \E src \in StreamSources :
           sample' = [sample EXCEPT ![s] = getStats(src).err]
    /\ sampled' = [sampled EXCEPT ![s] = @ + 1]
    /\ pc' = [pc EXCEPT ![s] = "writing"]
    /\ UNCHANGED <<probe, reply, now, horizon, slowIO, clients, ticker, deadline, ctxDone,
                   clientGone, fired, nStats, nErrors, delivered>>
    /\ UNCHANGED serverVars

\* a write to the connection succeeds while the client is there, the write
\* deadline has not passed and no earlier write failed
WriteSucceeds(s) == ~clientGone[s] /\ ~ctxDone[s] /\ now < deadline[s]

\* the event of the tick is written and flushed: "event: error" when getStats
\* failed, "event: stats" otherwise; the results of the writes are not
\* looked at and the loop goes on.  A failed write on the connection
\* cancels the request's context (net/http).
WriteEvent(s) ==
    /\ server # "exited"
    /\ pc[s] = "writing"
    /\ IF sample[s] # "nil"
          THEN nErrors' = [nErrors EXCEPT ![s] = @ + 1] /\ UNCHANGED nStats
          ELSE nStats' = [nStats EXCEPT ![s] = @ + 1] /\ UNCHANGED nErrors
    /\ IF WriteSucceeds(s)
          THEN delivered' = [delivered EXCEPT ![s] = @ + 1] /\ UNCHANGED ctxDone
          ELSE ctxDone' = [ctxDone EXCEPT ![s] = TRUE] /\ UNCHANGED delivered
    /\ sample' = [sample EXCEPT ![s] = "nil"]
    /\ pc' = [pc EXCEPT ![s] = "select"]
    /\ UNCHANGED <<probe, reply, now, horizon, slowIO, clients, ticker, deadline, clientGone,
                   fired, sampled>>
    /\ UNCHANGED serverVars

\* a disconnection that cancels one context shared by every request
ClientDisconnectShared(s) ==
    /\ server # "exited"
    /\ Running(s)
    /\ ~clientGone[s]
    /\ clientGone' = [clientGone EXCEPT ![s] = TRUE]
    /\ ctxDone' = [t \in Sessions |-> TRUE]
    /\ UNCHANGED <<probe, reply, now, horizon, slowIO, clients, pc, ticker, deadline, sample,
                   fired, sampled, nStats, nErrors, delivered>>
    /\ UNCHANGED serverVars

\* the client disconnects: the server cancels the request's context
ClientDisconnect(s) ==
    /\ server # "exited"
    /\ Running(s)
    /\ ~clientGone[s]
    /\ clientGone' = [clientGone EXCEPT ![s] = TRUE]
    /\ ctxDone' = [ctxDone EXCEPT ![s] = TRUE]
    /\ UNCHANGED <<probe, reply, now, horizon, slowIO, clients, pc, ticker, deadline, sample,
                   fired, sampled, nStats, nErrors, delivered>>
    /\ UNCHANGED serverVars

(***************************************************************************)
(* Time.  The ticker of a session fires every TickInterval seconds from    *)
(* its creation until it is stopped; its channel holds one tick, and a     *)
(* tick that finds the channel full is dropped (time.Ticker).  A select    *)
(* with a ready case is taken without delay; getStats and the writes may   *)
(* take any time when slowIO, and less than a second otherwise.            *)
(***************************************************************************)
SelectReady(s) == pc[s] = "select" /\ (ctxDone[s] \/ TickReady(s))

Fires(s) == ticker[s].active /\ ticker[s].next = now + 1

GraceOver == server = "shutdown" /\ now >= stopAt + ShutdownGrace

\* Start or the goroutine of ListenAndServe has a step to take now
ServerBusy == server = "starting" \/ Sending

Advance ==
    /\ server # "exited"
    /\ ~ServerBusy
    /\ now < horizon
    /\ ~GraceOver
    /\ \A s \in Sessions : ~SelectReady(s)
    /\ slowIO \/ \A s \in Sessions : pc[s] \notin {"sampling", "writing"}
    /\ now' = now + 1
    /\ ticker' = [s \in Sessions |->
                     IF Fires(s)
                       THEN [active |-> TRUE, next |-> ticker[s].next + TickInterval,
                             pending |-> TRUE]
                       ELSE ticker[s]]
    /\ fired' = [s \in Sessions |-> IF Fires(s) THEN fired[s] + 1 ELSE fired[s]]
    /\ UNCHANGED <<probe, reply, horizon, slowIO, clients, pc, deadline, ctxDone, clientGone,
                   sample, sampled, nStats, nErrors, delivered>>
    /\ UNCHANGED serverVars

(***************************************************************************)
(* Server.Start (main.go:93-124) and main (main.go:266-274).  Start        *)
(* registers the signal channel, starts the goroutine that runs            *)
(* ListenAndServe and sends its result on errChan, and then waits in a     *)
(* select on the two channels.  A select that finds both channels ready    *)
(* takes either; a goroutine parked in a select is woken by the first send *)
(* and takes that case.                                                    *)
(***************************************************************************)
\* a process whose handlers outlive main
KilledNone == pc

\* the process ends: every handler still running ends with it
Killed == [s \in Sessions |-> IF Running(s) THEN "killed" ELSE pc[s]]

\* what ListenAndServe returned, as the goroutine sends it
ListenResult == IF lsn = "failed" THEN "listen error" ELSE "http: Server closed"

\* server.Shutdown closes the listener: a ListenAndServe still running
\* returns http.ErrServerClosed to the goroutine
ListenerClosed == IF lsn = "serving" THEN "closed" ELSE lsn

\* the operating system delivers SIGINT or SIGTERM: signal.Notify puts it in
\* stop; a Start parked in its select is woken, takes case <-stop and calls
\* server.Shutdown, which closes the listener.  Signals that arrive after
\* Start has left the select stay in stop and are never read; the model
\* leaves them out.
Signal ==
    /\ server \in {"starting", "serving"}
    /\ ~stopCh
    /\ "signal" \notin {events[i] : i \in 1..Len(events)}
    /\ events' = Append(events, "signal")
    /\ IF server = "serving"
          THEN /\ server' = "shutdown"
               /\ stopAt' = now
               /\ lsn' = ListenerClosed
               /\ UNCHANGED stopCh
          ELSE /\ stopCh' = TRUE
               /\ UNCHANGED <<server, stopAt, lsn>>
    /\ UNCHANGED <<probe, reply, now, horizon, slowIO, clients, startErr, errCh>>
    /\ UNCHANGED sessionVars

\* ListenAndServe cannot bind, or fails while serving: it returns the error
\* to the goroutine
ListenerFails ==
    /\ server \in {"starting", "serving"}
    /\ lsn = "serving"
    /\ lsn' = "failed"
    /\ events' = Append(events, "failure")
    /\ UNCHANGED <<probe, reply, now, horizon, slowIO, clients, server, stopAt, startErr,
                   stopCh, errCh>>
    /\ UNCHANGED sessionVars

\* errChan <- server.ListenAndServe(): the send goes through when Start is
\* parked in its select, which then takes case err := <-errChan, wraps the
\* error and returns it, and main ends the process with log.Fatal; or when
\* the channel has room, and then the value waits in the channel
SendErr ==
    /\ server # "exited"
    /\ Sending
    /\ server = "serving" \/ Len(errCh) < ErrChanCap
    /\ lsn' = "done"
    /\ IF server = "serving"
          THEN /\ server' = "exited"
               /\ startErr' = "server error"
               /\ pc' = Killed
               /\ UNCHANGED errCh
          ELSE /\ errCh' = Append(errCh, ListenResult)
               /\ UNCHANGED <<server, startErr, pc>>
    /\ UNCHANGED <<probe, reply, now, horizon, slowIO, clients, stopAt, stopCh, events,
                   ticker, deadline, ctxDone, clientGone, sample, fired, sampled,
                   nStats, nErrors, delivered>>

\* Start reaches its select and finds no channel ready: it parks
SelectWait ==
    /\ server = "starting"
    /\ ~stopCh
    /\ errCh = <<>>
    /\ server' = "serving"
    /\ UNCHANGED <<probe, reply, now, horizon, slowIO, clients, stopAt, startErr,
                   stopCh, errCh, lsn, events>>
    /\ UNCHANGED sessionVars

\* Start reaches its select and takes case <-stop: it calls server.Shutdown
SelectStop ==
    /\ server = "starting"
    /\ stopCh
    /\ stopCh' = FALSE
    /\ server' = "shutdown"
    /\ stopAt' = now
    /\ lsn' = ListenerClosed
    /\ UNCHANGED <<probe, reply, now, horizon, slowIO, clients, startErr, errCh, events>>
    /\ UNCHANGED sessionVars

\* Start reaches its select and takes case err := <-errChan: it wraps the
\* error and returns it, and main ends the process with log.Fatal
SelectErr ==
    /\ server = "starting"
    /\ errCh # <<>>
    /\ errCh' = Tail(errCh)
    /\ server' = "exited"
    /\ startErr' = "server error"
    /\ pc' = Killed
    /\ UNCHANGED <<probe, reply, now, horizon, slowIO, clients, stopAt, stopCh, lsn, events,
                   ticker, deadline, ctxDone, clientGone, sample, fired, sampled,
                   nStats, nErrors, delivered>>

\* server.Shutdown returns: nil once no handler is running, the context's
\* error when the grace period is over; Start returns it and main ends
ShutdownReturns ==
    /\ server = "shutdown"
    /\ \/ /\ \A s \in Sessions : ~Running(s)
          /\ startErr' = "nil"
       \/ /\ GraceOver
          /\ \E s \in Sessions : Running(s)
          /\ startErr' = "context deadline exceeded"
    /\ server' = "exited"
    /\ pc' = Killed
    /\ UNCHANGED <<probe, reply, now, horizon, slowIO, clients, stopAt, stopCh, errCh, lsn,
                   events, ticker, deadline, ctxDone, clientGone, sample, fired, sampled,
                   nStats, nErrors, delivered>>

(***************************************************************************)
(* Specifications.                                                         *)
(***************************************************************************)
Next ==
    \/ \E s \in Sessions :
          \/ Open(s)
          \/ SelectDone(s)
          \/ SelectTick(s)
          \/ Sample(s)
          \/ WriteEvent(s)
          \/ ClientDisconnect(s)
    \/ Advance
    \/ Signal
    \/ ListenerFails
    \/ SendErr
    \/ SelectWait
    \/ SelectStop
    \/ SelectErr
    \/ ShutdownReturns

\* the server and its stream sessions, two clients, MaxTime seconds
Spec == Init /\ [][Next]_vars

\* getStats alone, on every outcome of the sources
StatsNext == CallGetStats

StatsSpec == Init /\ [][StatsNext]_vars

\* statsHandler alone, on every method and outcome of the sources
EndpointNext == ServeStats

EndpointSpec == Init /\ [][EndpointNext]_vars

\* one client, followed until its connection's write deadline has passed,
\* with getStats and the writes taking less than a second
LongInit == InitWith(WriteTimeout + 2 * TickInterval, FALSE, {1})

LongSpec == LongInit /\ [][Next]_vars

\* one client whose getStats and writes may be slow, followed over three
\* ticks of its ticker
SlowInit == InitWith(3 * TickInterval + 1, TRUE, {1})

SlowSpec == SlowInit /\ [][Next]_vars

(***************************************************************************)
(* Properties of getStats (checked under StatsSpec).                       *)
(***************************************************************************)
Probed == probe # <<>>

ProbeSrc == probe[1].src

ProbeRes == probe[1].res

\* one of the CPU, memory, disk and network reads failed or came back empty
CoreFails(src) ==
    \/ src.cpu \in {"err", "empty"}
    \/ src.mem = "err"
    \/ src.disk = "err"
    \/ src.net \in {"err", "empty"}

\* the messages of the core reads that fail in src
CoreCauses(src) ==
    (IF src.cpu = "err" THEN {"error getting CPU stats"} ELSE {}) \cup
    (IF src.cpu = "empty" THEN {"no CPU statistics available"} ELSE {}) \cup
    (IF src.mem = "err" THEN {"error getting memory stats"} ELSE {}) \cup
    (IF src.disk = "err" THEN {"error getting disk stats"} ELSE {}) \cup
    (IF src.net = "err" THEN {"error getting network stats"} ELSE {}) \cup
    (IF src.net = "empty" THEN {"no network statistics available"} ELSE {})

\* C1: all-or-nothing core metrics.  Whenever one of the CPU, memory, disk
\* and network reads fails (or the CPU read is empty), getStats returns an
\* error naming a read that failed and no snapshot; it returns a snapshot
\* only when all four succeeded, and never a snapshot together with an error.
C1_AllOrNothing ==
    Probed =>
        /\ CoreFails(ProbeSrc) =>
               ProbeRes.stats = <<>> /\ ProbeRes.err \in CoreCauses(ProbeSrc)
        /\ ProbeRes.stats # <<>> => ~CoreFails(ProbeSrc) /\ ProbeRes.err = "nil"
        /\ ProbeRes.stats = <<>> => ProbeRes.err # "nil"

\* C1 witness: only the disk read fails, and the call returns the disk error
\* and no snapshot although three processes could have been listed
C1_Witness ==
    /\ Probed
    /\ ProbeSrc.disk = "err"
    /\ ProbeSrc.cpu = "ok" /\ ProbeSrc.mem = "ok" /\ ProbeSrc.net = "ok"
    /\ ProbeSrc.plist = "ok"
    /\ Len(ProbeSrc.procs) = MaxProcs
    /\ ProbeRes.stats = <<>>
    /\ ProbeRes.err = "error getting disk stats"

\* all three reads of a process handle succeed
Healthy(proc) == proc.name # "err" /\ proc.cpu # "err" /\ proc.mem # "err"

\* the positions of the healthy handles of a list
HealthyAt(procs) == { i \in 1..Len(procs) : Healthy(procs[i]) }

\* C2: best-effort process enumeration.  Of N processes listed of which M
\* fail on name, CPU percent or memory, a returned snapshot holds exactly
\* N - M entries, they are the processes whose three reads succeeded, in the
\* order listed, and no entry holds a failed read.
C2_BestEffortProcesses ==
    (Probed /\ ProbeRes.stats # <<>>) =>
        LET procs == ProbeSrc.procs
            out   == ProbeRes.stats[1].Processes
            N     == Len(procs)
            M     == Cardinality({ i \in 1..N : ~Healthy(procs[i]) })
        IN  /\ Len(out) = N - M
            /\ { out[j].PID : j \in 1..Len(out) } =
                   { procs[i].pid : i \in HealthyAt(procs) }
            /\ \A j, k \in 1..Len(out) : j < k => out[j].PID < out[k].PID
            /\ \A j \in 1..Len(out) :
                   /\ out[j].Name # "err"
                   /\ out[j].CPUPercent # "err"
                   /\ \E i \in 1..N : /\ procs[i].pid = out[j].PID
                                       /\ procs[i].mem # "err"
                                       /\ out[j].Name = procs[i].name
                                       /\ out[j].CPUPercent = procs[i].cpu
                                       /\ out[j].MemoryUsage.num = procs[i].rss

\* C2 witness: three processes, the second fails on CPU percent, and the
\* snapshot lists the first and the third in that order
C2_Witness ==
    /\ Probed
    /\ ProbeRes.stats # <<>>
    /\ Len(ProbeSrc.procs) = 3
    /\ Healthy(ProbeSrc.procs[1])
    /\ ProbeSrc.procs[2].name # "err" /\ ProbeSrc.procs[2].cpu = "err"
    /\ Healthy(ProbeSrc.procs[3])
    /\ Len(ProbeRes.stats[1].Processes) = 2
    /\ ProbeRes.stats[1].Processes[1].PID = 1
    /\ ProbeRes.stats[1].Processes[2].PID = 3

\* C3 as stated: getStats fails only when a CPU, memory, disk or network
\* read fails or is empty; nothing in the process enumeration makes it fail.
C3_OnlyCoreFailuresFail ==
    Probed => (ProbeRes.err # "nil" => CoreFails(ProbeSrc))

\* C3 amended: getStats fails only when a core read fails or is empty or
\* when process.Processes() itself fails; a failure of the reads of one
\* process (name, CPU percent, memory) never makes it fail.
C3_OnlyCoreOrListFailuresFail ==
    Probed =>
        /\ ProbeRes.err # "nil" => (CoreFails(ProbeSrc) \/ ProbeSrc.plist = "err")
        /\ (~CoreFails(ProbeSrc) /\ ProbeSrc.plist = "ok") =>
               ProbeRes.err = "nil" /\ ProbeRes.stats # <<>>

\* C3 witness: every listed process fails on one of its reads, the core
\* reads and the listing succeed, and getStats returns a snapshot
C3_Witness ==
    /\ Probed
    /\ ~CoreFails(ProbeSrc) /\ ProbeSrc.plist = "ok"
    /\ Len(ProbeSrc.procs) = MaxProcs
    /\ ProbeSrc.procs[1].name = "err"
    /\ \A i \in 1..Len(ProbeSrc.procs) : ~Healthy(ProbeSrc.procs[i])
    /\ ProbeRes.err = "nil"
    /\ ProbeRes.stats # <<>>
    /\ ProbeRes.stats[1].Processes = <<>>

\* C4: in every snapshot returned, NetTraffic is the sum of BytesSent and
\* BytesRecv of the first counter entry, as integers, whatever 64-bit values
\* the counters hold; with no counter entry getStats fails.
C4_NetTrafficIsSum ==
    Probed =>
        /\ ProbeRes.stats # <<>> =>
               ProbeRes.stats[1].NetTraffic =
                   MathInt(MathSum(ProbeSrc.sent, ProbeSrc.recv))
        /\ ProbeSrc.net = "empty" => ProbeRes.stats = <<>> /\ ProbeRes.err # "nil"

\* C4, the part that holds: the sum is exact whenever it is below 2^63, and
\* an empty counter sequence makes getStats fail
C4_NetTrafficIsSumBelow2p63 ==
    Probed =>
        /\ (ProbeRes.stats # <<>> /\ MathSum(ProbeSrc.sent, ProbeSrc.recv)[5] = 0
                                  /\ MathSum(ProbeSrc.sent, ProbeSrc.recv)[4] < Half) =>
               ProbeRes.stats[1].NetTraffic =
                   MathInt(MathSum(ProbeSrc.sent, ProbeSrc.recv))
        /\ ProbeSrc.net = "empty" => ProbeRes.stats = <<>> /\ ProbeRes.err # "nil"

\* sent = 100 and recv = 200 give NetTraffic = 300
C4_SmallSumReached ==
    /\ Probed
    /\ ProbeRes.stats # <<>>
    /\ ProbeSrc.sent = <<100, 0, 0, 0>> /\ ProbeSrc.recv = <<200, 0, 0, 0>>
    /\ ProbeRes.stats[1].NetTraffic = MathInt(<<300, 0, 0, 0, 0>>)

(***************************************************************************)
(* Properties of the stream session.                                       *)
(***************************************************************************)
\* events session s has written
Emitted(s) == nStats[s] + nErrors[s]

\* a write of session s has failed
WriteFailed(s) == delivered[s] < Emitted(s)

\* C5: once the cancellation signal of a session is raised (its request
\* context is done), the session writes no further stats or error event, and
\* a session that has closed has stopped its ticker.
C5_NoEventAfterCancel ==
    [][\A s \in Sessions :
          /\ ctxDone[s] => (nStats'[s] = nStats[s] /\ nErrors'[s] = nErrors[s])
          /\ pc'[s] = "closed" => ~ticker'[s].active]_vars

\* C6: cancellation precedence.  At a select where a tick and the
\* cancellation signal are both ready the session never takes the tick
\* branch.
C6_CancelBeforeTick ==
    [][\A s \in Sessions :
          (pc[s] = "select" /\ ctxDone[s] /\ TickReady(s)) => pc'[s] # "sampling"]_vars

\* the step is session s writing the event of its tick
WritesEvent(s) == pc[s] = "writing" /\ pc'[s] = "select"

\* C7: a failed sample does not end the session.  The tick whose getStats
\* failed writes exactly one error event and no stats event and the session
\* goes back to its select; and once an error event has been written, every
\* tick whose getStats succeeds before any cancellation delivers a stats
\* event to the client.
C7_ErrorEventThenStats ==
    [][\A s \in Sessions :
          /\ (WritesEvent(s) /\ sample[s] # "nil") =>
                 /\ nErrors'[s] = nErrors[s] + 1
                 /\ nStats'[s] = nStats[s]
          /\ (pc[s] = "writing" /\ sample[s] # "nil" /\ server' # "exited") =>
                 pc'[s] \in {"writing", "select"}
          /\ (WritesEvent(s) /\ sample[s] = "nil" /\ nErrors[s] > 0 /\ ~ctxDone[s]) =>
                 /\ nStats'[s] = nStats[s] + 1
                 /\ delivered'[s] = delivered[s] + 1]_vars

\* C7, the part that holds: the tick whose getStats failed writes exactly one
\* error event and no stats event, the session goes back to its select, and
\* a later tick whose getStats succeeds writes a stats event
C7_ErrorEventThenStatsWritten ==
    [][\A s \in Sessions :
          /\ (WritesEvent(s) /\ sample[s] # "nil") =>
                 /\ nErrors'[s] = nErrors[s] + 1
                 /\ nStats'[s] = nStats[s]
          /\ (pc[s] = "writing" /\ sample[s] # "nil" /\ server' # "exited") =>
                 pc'[s] \in {"writing", "select"}
          /\ (WritesEvent(s) /\ sample[s] = "nil" /\ nErrors[s] > 0) =>
                 nStats'[s] = nStats[s] + 1]_vars

\* ticks session s has received from its ticker
Consumed(s) == sampled[s] + (IF pc[s] = "sampling" THEN 1 ELSE 0)

\* C8: every tick the ticker fires leads to one getStats call and one event:
\* each tick fired has been received or is the one waiting in the channel
\* (none is dropped, however long getStats takes), each tick received whose
\* handling is over has written one event, and while every getStats call
\* succeeded the events written are all stats events.
C8_OneEventPerTick ==
    \A s \in Sessions :
        (Running(s) /\ ~ctxDone[s]) =>
            /\ fired[s] = Consumed(s) + (IF ticker[s].pending THEN 1 ELSE 0)
            /\ (pc[s] = "select" /\ ~ticker[s].pending) =>
                   Emitted(s) = fired[s]
            /\ (pc[s] = "select" /\ ~ticker[s].pending /\ nErrors[s] = 0) =>
                   nStats[s] = fired[s]

\* C8, the part that holds: each tick received leads to one getStats call and
\* one event (unless the process ends first), and no more ticks are received
\* than were fired
C8_OneEventPerTickReceived ==
    \A s \in Sessions :
        /\ Consumed(s) + (IF ticker[s].pending THEN 1 ELSE 0) <= fired[s]
        /\ pc[s] # "killed" =>
               Emitted(s) = sampled[s] - (IF pc[s] = "writing" THEN 1 ELSE 0)

\* C9: a session whose client has not disconnected, while the server has
\* received no shutdown signal, goes on streaming and every event it writes
\* reaches the client, however long the session has been open.
C9_StreamsIndefinitely ==
    \A s \in Sessions :
        (pc[s] # "idle" /\ ~clientGone[s] /\ server = "serving") =>
            /\ Running(s)
            /\ ~WriteFailed(s)
            /\ ~ctxDone[s]

\* C10: after a write of a session has failed, the session makes no further
\* getStats call and writes no further event; and the step in which the
\* write fails changes no other session and leaves the server running.
C10_WriteFailureEndsSession ==
    [][\A s \in Sessions :
          /\ WriteFailed(s) =>
                 /\ sampled'[s] = sampled[s]
                 /\ nStats'[s] = nStats[s]
                 /\ nErrors'[s] = nErrors[s]
          /\ (~WriteFailed(s) /\ WriteFailed(s)') =>
                 /\ \A o \in Sessions \ {s} : pc'[o] = pc[o] /\ ctxDone'[o] = ctxDone[o]
                 /\ server' = server]_vars

\* C10, the part that holds: a failed write cancels the context of its own
\* session only, changes no other session and leaves the server running
C10_WriteFailureIsLocal ==
    [][\A s \in Sessions :
          (~WriteFailed(s) /\ WriteFailed(s)') =>
              /\ ctxDone'[s]
              /\ \A o \in Sessions \ {s} : pc'[o] = pc[o] /\ ctxDone'[o] = ctxDone[o]
              /\ server' = server]_vars

(***************************************************************************)
(* The order of the reads of getStats (checked under StatsSpec).           *)
(***************************************************************************)
\* the order the claim names
SourceOrder == <<"cpu", "mem", "disk", "net", "plist">>

\* source k fails in src
SourceFails(src, k) ==
    CASE k = "cpu"   -> src.cpu \in {"err", "empty"}
      [] k = "mem"   -> src.mem = "err"
      [] k = "disk"  -> src.disk = "err"
      [] k = "net"   -> src.net \in {"err", "empty"}
      [] k = "plist" -> src.plist = "err"

\* the messages getStats has for a failure of source k
SourceErrors(k) ==
    CASE k = "cpu"   -> {"error getting CPU stats", "no CPU statistics available"}
      [] k = "mem"   -> {"error getting memory stats"}
      [] k = "disk"  -> {"error getting disk stats"}
      [] k = "net"   -> {"error getting network stats", "no network statistics available"}
      [] k = "plist" -> {"error getting process list"}

\* the position in SourceOrder of the first source that fails, 0 if none
FirstFailing(src) ==
    LET failing == { i \in 1..Len(SourceOrder) : SourceFails(src, SourceOrder[i]) }
    IN  IF failing = {} THEN 0
        ELSE CHOOSE i \in failing : \A j \in failing : i <= j

\* C18: getStats queries CPU, memory, disk, network and the process list in
\* this order and stops at the first failure: the sources queried are those
\* up to and including the first failing one, each once (no retry), and the
\* error returned is that of the first failing source.
C18_FixedOrderFirstFailure ==
    Probed =>
        LET k == FirstFailing(ProbeSrc)
        IN  /\ probe[1].calls =
                   SubSeq(SourceOrder, 1, IF k = 0 THEN Len(SourceOrder) ELSE k)
            /\ k # 0 => /\ ProbeRes.err \in SourceErrors(SourceOrder[k])
                        /\ ProbeRes.stats = <<>>
            /\ k = 0 => ProbeRes.err = "nil"

\* C18 witness: CPU and memory succeed, disk is the first source to fail,
\* network and the process list would fail too; the call stops after disk
C18_Witness ==
    /\ Probed
    /\ ProbeSrc.cpu = "ok" /\ ProbeSrc.mem = "ok"
    /\ ProbeSrc.disk = "err" /\ ProbeSrc.net = "err" /\ ProbeSrc.plist = "err"
    /\ probe[1].calls = <<"cpu", "mem", "disk">>
    /\ ProbeRes.err = "error getting disk stats"

(***************************************************************************)
(* Properties of statsHandler (checked under EndpointSpec).                *)
(***************************************************************************)
Replied == reply # <<>>

\* getStats succeeds on src: every core read and the process listing do
StatsSucceed(src) == ~CoreFails(src) /\ src.plist = "ok"

\* C11: a GET request yields status 200 with the snapshot as body when
\* getStats succeeds and status 500 with the error's message as body when it
\* fails; a request with another method yields 405, with no getStats call
\* and no snapshot in the body; each request has exactly one of these three
\* outcomes.
C11_EndpointOutcomes ==
    Replied =>
        LET q == reply[1]
            r == q.resp
        IN  /\ (q.method = "GET" /\ StatsSucceed(q.src)) =>
                   /\ r.status = 200
                   /\ r.calls = 1
                   /\ Len(r.body) = 1
                   /\ r.body[1].cpuUsage = q.src.cpuVal
                   /\ r.body[1].memUsage = q.src.memVal
                   /\ r.body[1].diskUsage = q.src.diskVal
                   /\ r.body[1].netTraffic = ToInt64(AddU64(q.src.sent, q.src.recv))
                   /\ Len(r.body[1].processes) = Cardinality(HealthyAt(q.src.procs))
            /\ (q.method = "GET" /\ ~StatsSucceed(q.src)) =>
                   /\ r.status = 500
                   /\ r.calls = 1
                   /\ r.body[1] \in CoreCauses(q.src) \cup {"error getting process list"}
            /\ q.method # "GET" =>
                   /\ r.status = 405
                   /\ r.calls = 0
                   /\ r.body = <<"Method not allowed", "\n">>
            /\ r.status \in {200, 500, 405}

\* C11 witness: a POST while every source would succeed is answered 405
\* without a getStats call
C11_Witness ==
    /\ Replied
    /\ reply[1].method = "POST"
    /\ StatsSucceed(reply[1].src)
    /\ reply[1].resp.status = 405
    /\ reply[1].resp.calls = 0

\* the failure scenario: GET with the disk read failing is answered 500 with
\* the disk error's message
C11_DiskFailureReached ==
    /\ Replied
    /\ reply[1].method = "GET"
    /\ reply[1].src.cpu = "ok" /\ reply[1].src.mem = "ok" /\ reply[1].src.disk = "err"
    /\ reply[1].resp.status = 500
    /\ reply[1].resp.body[1] = "error getting disk stats"

(***************************************************************************)
(* Properties of Server.Start.                                             *)
(***************************************************************************)
\* the listener failure or the signal has come
Came(e) == e \in {events[i] : i \in 1..Len(events)}

\* Start took case <-stop
TookStop == server = "shutdown" \/ startErr \in {"nil", "context deadline exceeded"}

\* Start took case err := <-errChan
TookErr == startErr = "server error"

\* in every state: Start has taken at most one branch, the branch of an
\* event that came; errChan never holds more than its capacity; and a
\* goroutine with a result to send can send it at once
StartResolved ==
    /\ ~(TookStop /\ TookErr)
    /\ TookStop => Came("signal") /\ ~stopCh
    /\ TookErr => Came("failure") /\ server = "exited"
    /\ Len(errCh) <= ErrChanCap
    /\ (Sending /\ server # "exited") =>
           (server = "serving" \/ Len(errCh) < ErrChanCap)

\* in every step: Start does not go back to its select nor return twice,
\* and a parked Start leaves on the event that wakes it
StartResolvesOnce ==
    /\ server = "shutdown" => server' \in {"shutdown", "exited"}
    /\ server = "exited" => server' = "exited" /\ startErr' = startErr
    /\ startErr # "none" => startErr' = startErr
    /\ (server = "serving" /\ server' = "shutdown") =>
           (~Came("signal") /\ events' = Append(events, "signal"))
    /\ (server = "serving" /\ server' = "exited") =>
           (lsn = "failed" /\ lsn' = "done" /\ startErr' = "server error")

\* C17: Start resolves the race between the shutdown signal and the listener
\* error once, returning on the one it observes first, and the goroutine of
\* ListenAndServe is never blocked sending its result: errChan holds one
\* value, so the send goes through even when Start took the stop branch and
\* nobody receives.
C17_StartResolvesRaceOnce == []StartResolved /\ [][StartResolvesOnce]_vars

\* C17 witness: Start took the stop branch, the goroutine has sent
\* ErrServerClosed into errChan and finished, and nobody receives it
C17_Witness ==
    /\ TookStop
    /\ lsn = "done"
    /\ errCh = <<"http: Server closed">>

\* the listener failed before any shutdown signal came
FailedBeforeSignal == events # <<>> /\ events[1] = "failure"

\* C15: when the listener fails before any shutdown signal, Start returns
\* the error wrapping that failure and the process ends; Start never returns
\* success after a listener failure.
C15_ListenerFailureFatal ==
    (server = "exited" /\ FailedBeforeSignal) => startErr = "server error"

\* C15, the part that holds: a listener failure that Start receives is
\* fatal, and when no signal comes the failure is the only way Start returns
C15_FatalUnlessSignalled ==
    /\ TookErr => (server = "exited" /\ \A s \in Sessions : ~Running(s))
    /\ (server = "exited" /\ FailedBeforeSignal /\ ~Came("signal")) =>
           startErr = "server error"

\* C12: when the shutdown signal is received, the cancellation token of
\* every stream session in flight becomes signalled, so each session closes
\* because of the shutdown itself.
C12_ShutdownCancelsSessions ==
    \A s \in Sessions : (TookStop /\ Running(s)) => ctxDone[s]

\* C12, what the code does: no step of Start touches the token of a session;
\* a token is signalled only by its client's disconnection or by a failed
\* write on its connection
C12_ShutdownLeavesTokens ==
    [][\A s \in Sessions :
          (~ctxDone[s] /\ ctxDone'[s]) =>
              /\ server' = server
              /\ clientGone'[s] \/ (pc[s] = "writing" /\ ~WriteSucceeds(s))]_vars

\* in every state after the signal was received: server.Shutdown has not
\* waited longer than the grace period; once Start has returned no handler
\* runs; Start returns nil only when every session had finished by itself,
\* and the context's error only at the end of the grace period, with the
\* sessions still open ended by the exit of the process
ShutdownBounded ==
    /\ server = "shutdown" => now <= stopAt + ShutdownGrace
    /\ server = "exited" => \A s \in Sessions : ~Running(s)
    /\ startErr = "nil" => \A s \in Sessions : pc[s] # "killed"
    /\ startErr = "context deadline exceeded" =>
           /\ now = stopAt + ShutdownGrace
           /\ \E s \in Sessions : pc[s] = "killed"

\* in every step after the signal was received no connection is accepted,
\* and after Start has returned no session samples or writes
ShutdownQuiesces ==
    /\ TookStop => \A s \in Sessions : pc[s] = "idle" => pc'[s] = "idle"
    /\ server = "exited" =>
           \A s \in Sessions : /\ sampled'[s] = sampled[s]
                                /\ Emitted(s)' = Emitted(s)
                                /\ delivered'[s] = delivered[s]

\* C13: after a shutdown signal the server accepts no new connection, waits
\* for the sessions in flight for at most the grace period, and at the end
\* of the grace period every session still open has been terminated; no
\* session emits an event once the grace period is over and Start and main
\* have returned.
C13_BoundedGracefulShutdown == []ShutdownBounded /\ [][ShutdownQuiesces]_vars

\* C13 witness: the grace period ran out with a session still streaming;
\* Start returned the context's error and the session ended with the process
C13_Witness ==
    /\ server = "exited"
    /\ startErr = "context deadline exceeded"
    /\ now = stopAt + ShutdownGrace
    /\ \E s \in Sessions : pc[s] = "killed" /\ Emitted(s) > 0

\* the ticker of a handler that has returned is stopped
ClosedTickerStopped ==
    \A s \in Sessions : pc[s] = "closed" => ~ticker[s].active

\* a handler that has returned stays returned: its ticker fires no more, and
\* it makes no getStats call and writes nothing
ClosedIsTerminal ==
    \A s \in Sessions :
        pc[s] = "closed" =>
            /\ pc'[s] = "closed"
            /\ ticker'[s] = ticker[s]
            /\ fired'[s] = fired[s]
            /\ sampled'[s] = sampled[s]
            /\ nStats'[s] = nStats[s]
            /\ nErrors'[s] = nErrors[s]
            /\ delivered'[s] = delivered[s]

\* C16: on every path by which the handler of a stream session ends its
\* ticker has been stopped, and once the session is closed it makes no
\* further getStats call and no further write.
C16_NoTimerLeakClosedTerminal == []ClosedTickerStopped /\ [][ClosedIsTerminal]_vars

\* C16 witness: a session that streamed has closed at a moment its ticker
\* was about to fire; the clock has moved on and nothing fired
C16_Witness ==
    \E s \in Sessions :
        /\ pc[s] = "closed"
        /\ Emitted(s) > 0
        /\ ~ticker[s].active
        /\ now >= ticker[s].next

\* the second session s was opened: its connection got its write deadline
\* then
OpenedAt(s) == deadline[s] - WriteTimeout

\* C19: a stream session emits nothing before its first tick: from the
\* opening of the stream to the first firing of its ticker, TickInterval
\* later, no getStats call is made and no stats or error event is written;
\* and the events emitted never exceed the ticks consumed, nor these the
\* ticks fired.
C19_NothingBeforeFirstTick ==
    \A s \in Sessions :
        /\ (pc[s] # "idle" /\ now < OpenedAt(s) + TickInterval) => fired[s] = 0
        /\ fired[s] = 0 => (sampled[s] = 0 /\ Emitted(s) = 0)
        /\ Emitted(s) <= Consumed(s)
        /\ Consumed(s) <= fired[s]

\* C19 witness: a session opened after the start has consumed two ticks and
\* written one event for each
C19_Witness ==
    \E s \in Sessions :
        /\ Running(s)
        /\ OpenedAt(s) > 0
        /\ fired[s] = 2
        /\ Consumed(s) = 2
        /\ Emitted(s) = 2

(***************************************************************************)
(* Properties of the stream sessions taken together.                       *)
(***************************************************************************)
\* everything sseHandler and its connection hold for session s
SessionState(s) ==
    <<pc[s], ticker[s], deadline[s], ctxDone[s], clientGone[s], sample[s],
      fired[s], sampled[s], nStats[s], nErrors[s], delivered[s]>>

\* a step of session s: the clock and Start stand still and s changes
SessionStep(s) ==
    /\ now' = now
    /\ server' = server
    /\ SessionState(s)' # SessionState(s)

\* C14: stream sessions are independent: a tick, a failed sample, a
\* cancellation or the closing of one session leaves the state of every
\* other session as it was, so what another session does next, and when, is
\* the same as without it; no event of another session is removed; and when
\* the clock advances a session changes only by the firing of its own ticker.
C14_SessionsIndependent ==
    [][/\ \A s, t \in Sessions :
             (s # t /\ SessionStep(s)) =>
                 /\ SessionState(t)' = SessionState(t)
                 /\ SelectReady(t)' = SelectReady(t)
       /\ \A t \in Sessions :
             /\ server' # "exited" =>
                    /\ Emitted(t)' >= Emitted(t)
                    /\ delivered'[t] >= delivered[t]
             /\ now' # now =>
                    /\ (~Fires(t)) => SessionState(t)' = SessionState(t)
                    /\ Fires(t) => fired'[t] = fired[t] + 1]_vars

\* C14 witness: two sessions stream side by side; one has been cancelled and
\* closed, the other goes on and has emitted an event since
C14_Witness ==
    \E s, t \in Sessions :
        /\ s # t
        /\ pc[s] = "closed"
        /\ Emitted(s) = 0
        /\ Running(t) /\ ~ctxDone[t]
        /\ delivered[t] > 0

====
